---- MODULE Spec2Model ----
(***************************************************************************)
(* Durable session runtime (src/src/core/chat_runtime.py) driving the      *)
(* decision graph of RAGAgent (src/src/core/agent.py).                     *)
(*                                                                         *)
(* The graph is compiled with a checkpointer (agent.py:232), so            *)
(* graph.invoke (chat_runtime.py:25) reads the latest checkpoint of the    *)
(* thread, applies the input and then writes one checkpoint per super-step *)
(* (input, query_or_respond, tools, generate).  A node that raises ends    *)
(* the invocation; the checkpoints written before it stay in the store.    *)
(* Every access to the checkpoint store is one atomic step of the model;   *)
(* the LLM / tool invocation of a node is local to the call and is taken   *)
(* together with the checkpoint write that follows it.                     *)
(***************************************************************************)
EXTENDS Integers, Sequences, FiniteSets, TLC

\* ---- bounds of the model ------------------------------------------------
MaxToolCalls == 1      \* tool-call requests one AI message may carry
MaxLen == 3            \* messages of a result list given to the answer selection
MaxBuilds == 2         \* constructions of RAGAgent / RAGPipeline in one run
MaxDocs == 6           \* chunks of the index a retrieve call searches
MaxRequests == 3       \* requests the hosting process serves in one run
MaxResets == 1         \* resets one session issues in one run

BaseIds == {<<"t1">>, <<"t2">>}
CallIds == {1, 2}      \* the chat calls of one run
NoId == <<>>

VARIABLES
    hasDelete,         \* hasattr(cp, "delete") of the checkpoint backend
    handleToolErrors,  \* ToolNode(...).handle_tool_errors of the installed build
    store,             \* thread id -> messages of its latest checkpoint
    calls,             \* chat calls: position in the graph and local state
    lastOp,            \* the last call made on the runtime, with its outcome for
                       \* reset_thread / get_history / export_history
    kb,                \* the knowledge-base file: its records, or NoFile
    disk,              \* ./rag_cache: path -> stored artifact
    inst,              \* the object the last construction produced (or its error)
    builds,            \* constructions run so far
    fin,               \* result["messages"] handed to the answer selection of chat
    rq,                \* one call of the retrieve tool: ranking, k, result
    gen,               \* state["messages"] handed to generate, and its prompt
    boot,              \* app.py: the global _runtime and the requests ensuring it
    sess               \* callers' sessions (CLI loop, UI tab): current thread_id

chatVars == <<hasDelete, handleToolErrors, store, calls, lastOp>>
cacheVars == <<kb, disk, inst, builds>>
toolVars == <<fin, rq, gen>>
appVars == <<boot, sess>>
vars == <<chatVars, cacheVars, toolVars, appVars>>

\* ---- messages -----------------------------------------------------------
\* type: human | ai | tool;  call: the chat call that appended it;
\* calls: number of tool-call requests (ai);  err: status = "error" (tool)
Msg(t, c, k, e) == [type |-> t, call |-> c, calls |-> k, err |-> e]
NoMsg == Msg("none", 0, 0, FALSE)
HumanMessage(c) == Msg("human", c, 0, FALSE)
AIMessage(c, k) == Msg("ai", c, k, FALSE)
ToolMessage(c, ok) == Msg("tool", c, 0, ~ok)

Last(s) == s[Len(s)]

\* ---- checkpoint store ---------------------------------------------------
\* get_state / get_tuple: the thread's latest messages, empty if never written
History(tid) == IF tid \in DOMAIN store THEN store[tid] ELSE <<>>

PutShared(tid, msgs) ==
    [t \in (DOMAIN store) \cup {tid} |-> msgs]

Put(tid, msgs) ==
    [t \in (DOMAIN store) \cup {tid} |-> IF t = tid THEN msgs ELSE store[t]]

Delete(tid) == [t \in (DOMAIN store) \ {tid} |-> store[t]]

\* checkpointer.put of one super-step; up = the store is reachable at the write.
\* A failed put raises out of graph.invoke.
CheckpointPutSwallow(tid, msgs, up) ==
    IF up THEN [ok |-> TRUE, store |-> Put(tid, msgs)]
          ELSE [ok |-> TRUE, store |-> store]

CheckpointPut(tid, msgs, up) ==
    IF up THEN [ok |-> TRUE, store |-> Put(tid, msgs)]
          ELSE [ok |-> FALSE, store |-> store]

\* ---- thread ids a caller can name ---------------------------------------
\* the base names, the id the last reset_thread handed back, the ids chat has
\* been called with, and the ids the running sessions hold
KnownIds ==
    BaseIds \cup (IF lastOp.op = "reset" /\ ~lastOp.raised THEN {lastOp.ret} ELSE {})
            \cup {calls[c].tid : c \in {d \in CallIds : calls[d].pc # "idle"}}
            \cup {sess.of[s].tid : s \in DOMAIN sess.of}

NoOp == [op |-> "none", tid |-> NoId, ret |-> NoId, raised |-> FALSE, msgs |-> <<>>]

IdleCall == [pc |-> "idle", tid |-> NoId, msgs |-> <<>>, err |-> "none",
             visited |-> <<>>, ret |-> NoMsg]

\* values of the parts of the state an operation group does not touch
NoFile == [exists |-> FALSE, records |-> <<>>]
NoKey == <<>>
NoInst == [who |-> "none", src |-> NoFile, params |-> <<>>, outcome |-> "none",
           key |-> NoKey, chunks |-> <<>>, index |-> <<>>, chunkHit |-> FALSE,
           loaded |-> FALSE, indexHit |-> FALSE, read |-> {}, wrote |-> {}]
NoProbe == [applied |-> FALSE]
CacheIdle == kb = NoFile /\ disk = <<>> /\ inst = NoInst /\ builds = 0
ToolIdle == fin = NoProbe /\ rq = NoProbe /\ gen = NoProbe
\* app.py: the module global _runtime (0 is None, n > 0 the n-th ChatRuntime
\* constructed by the process), the number of RAGAgent + ChatRuntime pairs
\* constructed, and the requests' positions in _ensure_runtime
Requests == 1..MaxRequests
NoReq == [pc |-> "idle", ret |-> 0]
NoBoot == [runtime |-> 0, made |-> 0, reqs |-> [r \in Requests |-> NoReq]]
\* the callers' sessions: the clock (whole seconds), the uuid-named ids handed
\* out so far, and per session the thread_id it holds
NoSess == [now |-> 0, minted |-> 0, of |-> <<>>]
AppIdle == boot = NoBoot /\ sess = NoSess

Init ==
    /\ hasDelete \in BOOLEAN
    /\ handleToolErrors \in BOOLEAN
    /\ store = <<>>
    /\ calls = [c \in CallIds |-> IdleCall]
    /\ lastOp = NoOp
    /\ CacheIdle
    /\ ToolIdle
    /\ AppIdle

\* ---- the decision graph -------------------------------------------------
\* responses of llm_with_tools (agent.py:168) and of the bare llm (agent.py:207):
\* the number of tool-call requests the AI message carries
LlmWithToolsResponses == 0..MaxToolCalls
LlmResponsesWithTools == 0..MaxToolCalls
LlmResponses == {0}

\* tools_condition on the last message
ToolsConditionAlways(msg) == "tools"
ToolsCondition(msg) == IF msg.type = "ai" /\ msg.calls > 0 THEN "tools" ELSE "END"

\* ChatRuntime.chat: the last AI message without tool calls, else the last message
FinalAiLast(msgs, i) == Last(msgs)

FinalAiFirst(msgs, i) ==
    LET finals == {j \in 1..Len(msgs) : msgs[j].type = "ai" /\ msgs[j].calls = 0}
    IN IF finals = {} THEN Last(msgs)
       ELSE msgs[CHOOSE j \in finals : \A l \in finals : j <= l]

RECURSIVE FinalAi(_, _)
FinalAi(msgs, i) ==
    IF i = 0 THEN Last(msgs)
    ELSE IF msgs[i].type = "ai" /\ msgs[i].calls = 0 THEN msgs[i]
    ELSE FinalAi(msgs, i - 1)

\* the fixed edges of the graph: tools -> generate, generate -> END
EdgeBack(node) == IF node = "tools" THEN "generate" ELSE "decide"
Edge(node) == IF node = "tools" THEN "generate" ELSE "done"

Fail(c, node, e) ==
    calls' = [calls EXCEPT ![c].pc = "failed", ![c].err = e,
                           ![c].visited = IF node = "" THEN @ ELSE Append(@, node)]

\* one super-step that produced `msgs`: checkpoint it, then move to `next`
Step(c, node, msgs, next) ==
    \E up \in BOOLEAN :
    LET put == CheckpointPut(calls[c].tid, msgs, up) IN
    IF put.ok
    THEN /\ store' = put.store
         /\ calls' = [calls EXCEPT
                ![c].pc = next,
                ![c].msgs = msgs,
                ![c].visited = IF node = "" THEN @ ELSE Append(@, node),
                ![c].ret = IF next = "done" THEN FinalAi(msgs, Len(msgs)) ELSE @]
    ELSE /\ store' = store
         /\ Fail(c, node, "db")

\* graph.invoke, first part: load the thread's checkpoint, apply the input
\* {"messages": [HumanMessage]} (add_messages appends) and checkpoint it.
\* Calls are numbered in the order they are issued, and the first one is on
\* t1 or an id derived from it (the two base names are interchangeable).
ChatInvoke(c, tid) ==
    /\ calls[c].pc = "idle"
    /\ \A d \in CallIds : d < c => calls[d].pc # "idle"
    /\ tid \in KnownIds
    /\ \E up \in BOOLEAN :
         LET msgs == Append(History(tid), HumanMessage(c))
             put == CheckpointPut(tid, msgs, up)
         IN IF put.ok
            THEN /\ store' = put.store
                 /\ calls' = [calls EXCEPT ![c].pc = "decide", ![c].tid = tid,
                                           ![c].msgs = msgs]
            ELSE /\ store' = store
                 /\ calls' = [calls EXCEPT ![c].pc = "failed", ![c].tid = tid,
                                           ![c].err = "db"]
    /\ lastOp' = [NoOp EXCEPT !.op = "chat", !.tid = tid]
    /\ UNCHANGED <<hasDelete, handleToolErrors>>

ChatBegin(c, tid) ==
    /\ (\A d \in CallIds : c <= d) => Head(tid) = "t1"
    /\ ChatInvoke(c, tid)
    /\ UNCHANGED <<cacheVars, toolVars, appVars>>

\* DECIDE
QueryOrRespond(c) ==
    /\ calls[c].pc = "decide"
    /\ \/ /\ Fail(c, "query_or_respond", "llm")
          /\ store' = store
       \/ \E k \in LlmWithToolsResponses :
            LET msgs == Append(calls[c].msgs, AIMessage(c, k))
                next == IF ToolsCondition(Last(msgs)) = "tools" THEN "tools" ELSE "done"
            IN Step(c, "query_or_respond", msgs, next)
    /\ UNCHANGED <<cacheVars, toolVars, appVars, hasDelete, handleToolErrors, lastOp>>

\* RETRIEVE: ToolNode runs every requested call; ok[i] = call i returned
ToolResultsTwice(c, ok, k) ==
    [i \in 1..(2 * k) |-> ToolMessage(c, ok[((i - 1) % k) + 1])]

RECURSIVE ToolResults(_, _, _)
ToolResults(c, ok, k) ==
    IF k = 0 THEN <<>> ELSE Append(ToolResults(c, ok, k - 1), ToolMessage(c, ok[k]))

Tools(c) ==
    /\ calls[c].pc = "tools"
    /\ LET k == Last(calls[c].msgs).calls IN
       \E ok \in [1..k -> BOOLEAN] :
          IF (\A i \in 1..k : ok[i]) \/ handleToolErrors
          THEN Step(c, "tools", calls[c].msgs \o ToolResults(c, ok, k), Edge("tools"))
          ELSE /\ Fail(c, "tools", "tool")
               /\ store' = store
    /\ UNCHANGED <<cacheVars, toolVars, appVars, hasDelete, handleToolErrors, lastOp>>

\* generate, agent.py:183-189: the tool messages at the end of the history,
\* scanning backwards until the first message of another type
RECURSIVE TrailingTools(_, _)
TrailingTools(msgs, i) ==
    IF i = 0 THEN 0
    ELSE IF msgs[i].type = "tool" THEN 1 + TrailingTools(msgs, i - 1)
    ELSE 0

AllToolMessages(msgs) == SelectSeq(msgs, LAMBDA m : m.type = "tool")

RecentToolMessages(msgs) ==
    SubSeq(msgs, Len(msgs) - TrailingTools(msgs, Len(msgs)) + 1, Len(msgs))

\* the text of a message
Content(m) == <<m.type, m.call, m.err>>

\* agent.py:192: "\n\n".join(doc.content for doc in tool_messages), as the list
\* of the joined texts
DocsContent(tool_messages) ==
    [i \in 1..Len(tool_messages) |-> Content(tool_messages[i])]

\* agent.py:196-201
ConversationWithToolCalls(msgs) ==
    SelectSeq(msgs, LAMBDA m : m.type \in {"human", "system", "ai"})

ConversationMessages(msgs) ==
    SelectSeq(msgs, LAMBDA m : \/ m.type \in {"human", "system"}
                                \/ (m.type = "ai" /\ m.calls = 0))

\* agent.py:204: SystemMessage(SYSTEM_PROMPT + context) followed by the conversation
Prompt(msgs) ==
    [context |-> DocsContent(RecentToolMessages(msgs)),
     conversation |-> ConversationMessages(msgs)]

\* GENERATE
Generate(c) ==
    /\ calls[c].pc = "generate"
    /\ \/ /\ Fail(c, "generate", "llm")
          /\ store' = store
       \/ \E k \in LlmResponses :
            Step(c, "generate", Append(calls[c].msgs, AIMessage(c, k)), Edge("generate"))
    /\ UNCHANGED <<cacheVars, toolVars, appVars, hasDelete, handleToolErrors, lastOp>>

\* ---- the other runtime operations ---------------------------------------
\* int(time.time()): the wall clock in whole seconds; two calls read the same
\* value (within one second) or different ones
Clock == {0, 1}

\* f"{thread_id}-{int(time.time())}"
NewId(tid, t) == Append(tid, t)

\* reset_thread(tid) called when int(time.time()) is t
ResetThreadAt(tid, t) ==
    IF hasDelete
    THEN \E up \in BOOLEAN :
         IF up
         THEN /\ store' = Delete(tid)
              /\ lastOp' = [NoOp EXCEPT !.op = "reset", !.tid = tid, !.ret = tid]
         ELSE /\ store' = store
              /\ lastOp' = [NoOp EXCEPT !.op = "reset", !.tid = tid, !.raised = TRUE]
    ELSE /\ store' = store
         /\ lastOp' = [NoOp EXCEPT !.op = "reset", !.tid = tid,
                                   !.ret = NewId(tid, t)]

ResetThread(tid) ==
    /\ tid \in BaseIds
    /\ \E t \in Clock : ResetThreadAt(tid, t)
    /\ UNCHANGED <<cacheVars, toolVars, appVars, hasDelete, handleToolErrors, calls>>

\* graph.get_state(cfg) returns a StateSnapshot, a named tuple with these fields
SnapshotFields == {"values", "next", "config", "metadata", "created_at",
                   "parent_config", "tasks", "interrupts"}

\* get_history: snapshot.state.get("messages", []); the attribute lookup raises
\* AttributeError when the snapshot has no such field.  Result: [raised, msgs].
\* (The store is taken to be reachable at reads; outages are modelled at the
\* writes of a turn and at delete.)
GetHistoryResult(tid) ==
    IF "state" \in SnapshotFields
    THEN [raised |-> FALSE, msgs |-> History(tid)]
    ELSE [raised |-> TRUE, msgs |-> <<>>]

\* graph.get_state(cfg): reads the latest checkpoint of the thread; the store
\* after the read is the store before it (no checkpoint is created for a
\* thread that has none)
GetStateCreating(tid) == Put(tid, History(tid))
GetState(tid) == store

GetHistory(tid) ==
    /\ tid \in KnownIds
    /\ lastOp' = [NoOp EXCEPT !.op = "get_history", !.tid = tid,
                              !.raised = GetHistoryResult(tid).raised,
                              !.msgs = GetHistoryResult(tid).msgs]
    /\ store' = GetState(tid)
    /\ UNCHANGED <<cacheVars, toolVars, appVars, hasDelete, handleToolErrors, calls>>

\* export_history: get_history first; its error propagates before any file is written
ExportHistory(tid) ==
    /\ tid \in KnownIds
    /\ lastOp' = [NoOp EXCEPT !.op = "export", !.tid = tid,
                              !.raised = GetHistoryResult(tid).raised,
                              !.msgs = GetHistoryResult(tid).msgs]
    /\ store' = GetState(tid)
    /\ UNCHANGED <<cacheVars, toolVars, appVars, hasDelete, handleToolErrors, calls>>

Running(c) == calls[c].pc \in {"decide", "tools", "generate"}
Busy(tid) == \E c \in CallIds : Running(c) /\ calls[c].tid = tid

Next ==
    \/ \E c \in CallIds, tid \in KnownIds : ChatBegin(c, tid)
    \/ \E c \in CallIds : QueryOrRespond(c)
    \/ \E c \in CallIds : Tools(c)
    \/ \E c \in CallIds : Generate(c)
    \/ \E tid \in BaseIds : ResetThread(tid)
    \/ \E tid \in KnownIds : GetHistory(tid)
    \/ \E tid \in KnownIds : ExportHistory(tid)

Spec == Init /\ [][Next]_vars

ChatIdle ==
    /\ hasDelete = FALSE /\ handleToolErrors = FALSE
    /\ store = <<>> /\ calls = [c \in CallIds |-> IdleCall] /\ lastOp = NoOp

\* ---- chunk cache and vector index (agent.py:27-138, rag.py:19-87) -----------
\* A knowledge base is a JSON array of records; a record is its text, a sequence
\* of characters.  Sizes are scaled down: the shipped constants of agent.py and
\* rag.py (1000 / 200) stand as 2 / 1, and so do the literals of rag.py:47.
CHUNK_SIZE == 2
CHUNK_OVERLAP == 1
RagSplitSize == 2
RagSplitOverlap == 1

\* values CHUNK_SIZE / CHUNK_OVERLAP of a module may have when it is run
ParamChoices == {<<CHUNK_SIZE, CHUNK_OVERLAP>>, <<CHUNK_SIZE, 0>>,
                 <<CHUNK_SIZE + 1, CHUNK_OVERLAP>>}

Sources == {[exists |-> TRUE, records |-> r] :
                r \in {<<>>, << <<"a", "b", "c">> >>, << <<"a", "b", "d">> >>}}

\* _file_hash: sha256 over the file bytes followed by "::cs=..::co=..", cut to
\* 16 hex digits.  The digest is taken as collision-free, so the key is
\* represented by the byte string that is hashed.  open() of a missing file
\* raises FileNotFoundError.
FileHashContentOnly(file, p) ==
    IF file = NoFile THEN [ok |-> FALSE, key |-> NoKey]
    ELSE [ok |-> TRUE, key |-> <<file.records>>]

FileHashMissingAsEmpty(file, p) ==
    IF file = NoFile THEN [ok |-> TRUE, key |-> <<<<>>, "cs", p[1], "co", p[2]>>]
    ELSE [ok |-> TRUE, key |-> <<file.records, "cs", p[1], "co", p[2]>>]

FileHash(file, p) ==
    IF file = NoFile THEN [ok |-> FALSE, key |-> NoKey]
    ELSE [ok |-> TRUE, key |-> <<file.records, "cs", p[1], "co", p[2]>>]

\* cache paths: f"{key}.pkl", f"chunks_{key}.pkl", f"faiss_{key}"
AgentChunksPkl(key) == <<"", key, ".pkl">>
PipelineChunksPkl(key) == <<"chunks_", key, ".pkl">>
FaissDir(key) == <<"faiss_", key>>

Write(d, path, data) ==
    [q \in (DOMAIN d) \cup {path} |-> IF q = path THEN data ELSE d[q]]

\* RecursiveCharacterTextSplitter on one text: windows of cs characters,
\* consecutive windows sharing co characters
RECURSIVE SplitText(_, _, _)
SplitText(text, cs, co) ==
    IF Len(text) <= cs THEN <<text>>
    ELSE <<SubSeq(text, 1, cs)>>
            \o SplitText(SubSeq(text, cs - co + 1, Len(text)), cs, co)

\* split_documents: the chunks of every record, in order, each with the
\* record's metadata (its position)
RECURSIVE SplitDocuments(_, _, _)
SplitDocuments(docs, n, p) ==
    IF n = 0 THEN <<>>
    ELSE LET texts == SplitText(docs[n], p[1], p[2]) IN
         SplitDocuments(docs, n - 1, p)
            \o [i \in 1..Len(texts) |-> [text |-> texts[i], seq |-> n]]

\* what an interrupted write leaves behind: a chunk file cut short (open(.., "wb")
\* has created it, pickle.dump has not finished), an index directory without
\* its complete files (save_local has made the directory)
TruncatedPkl == <<[text |-> <<>>, seq |-> 0]>>
PartialIndex == [docs |-> TruncatedPkl]

\* _load_or_build_chunks with chunk file `path`, splitter parameters sp, the
\* source as the loader finds it; pickle.load of a file cut short raises
LoadOrBuildChunksAlways(d, path, file, sp) ==
    IF file = NoFile
    THEN [ok |-> FALSE, err |-> "FileNotFoundError", chunks |-> <<>>, disk |-> d,
          hit |-> FALSE, loaded |-> FALSE]
    ELSE LET splits == SplitDocuments(file.records, Len(file.records), sp) IN
         [ok |-> TRUE, err |-> "none", chunks |-> splits,
          disk |-> Write(d, path, splits), hit |-> FALSE, loaded |-> TRUE]

LoadOrBuildChunks(d, path, file, sp) ==
    IF path \in DOMAIN d
    THEN IF d[path] = TruncatedPkl
         THEN [ok |-> FALSE, err |-> "UnpicklingError", chunks |-> <<>>, disk |-> d,
               hit |-> TRUE, loaded |-> FALSE]
         ELSE [ok |-> TRUE, err |-> "none", chunks |-> d[path], disk |-> d,
               hit |-> TRUE, loaded |-> FALSE]
    ELSE IF file = NoFile
    THEN [ok |-> FALSE, err |-> "FileNotFoundError", chunks |-> <<>>, disk |-> d,
          hit |-> FALSE, loaded |-> FALSE]
    ELSE LET splits == SplitDocuments(file.records, Len(file.records), sp) IN
         [ok |-> TRUE, err |-> "none", chunks |-> splits,
          disk |-> Write(d, path, splits), hit |-> FALSE, loaded |-> TRUE]

\* FAISS.from_documents: embeds the texts, then sizes the index by
\* len(embeddings[0]), which raises IndexError for an empty list
FromDocuments(chunks, embedOk) ==
    IF chunks = <<>> THEN [ok |-> FALSE, err |-> "IndexError", index |-> <<>>]
    ELSE IF ~embedOk THEN [ok |-> FALSE, err |-> "EmbeddingError", index |-> <<>>]
    ELSE [ok |-> TRUE, err |-> "none", index |-> [docs |-> chunks]]

\* _load_or_build_vector_store with index directory `path`; FAISS.load_local
\* of a directory without its complete files raises
LoadOrBuildVectorStore(d, path, chunks, embedOk) ==
    IF path \in DOMAIN d
    THEN IF d[path] = PartialIndex
         THEN [ok |-> FALSE, err |-> "LoadError", index |-> <<>>, disk |-> d,
               hit |-> TRUE]
         ELSE [ok |-> TRUE, err |-> "none", index |-> d[path], disk |-> d,
               hit |-> TRUE]
    ELSE LET vs == FromDocuments(chunks, embedOk) IN
         IF vs.ok
         THEN [ok |-> TRUE, err |-> "none", index |-> vs.index,
               disk |-> Write(d, path, vs.index), hit |-> FALSE]
         ELSE [ok |-> FALSE, err |-> vs.err, index |-> <<>>, disk |-> d, hit |-> FALSE]

\* the body shared by RAGAgent.__init__ (from agent.py:53) and
\* RAGPipeline.__init__ (from rag.py:42): key, chunks, index.  The key is
\* computed from the file as it is at that moment (kb), the loader reads the
\* file as it is when the chunks are built (atLoad).
Construct(who, p, sp, chunksPkl, embedOk, atLoad) ==
    LET h == FileHash(kb, p)
        start == [NoInst EXCEPT !.who = who, !.src = kb, !.params = p]
    IN
    IF ~h.ok
    THEN /\ inst' = [start EXCEPT !.outcome = "FileNotFoundError"]
         /\ disk' = disk
    ELSE
    LET cpath == IF chunksPkl = "agent" THEN AgentChunksPkl(h.key)
                                        ELSE PipelineChunksPkl(h.key)
        c == LoadOrBuildChunks(disk, cpath, atLoad, sp)
        keyed == [start EXCEPT !.key = h.key, !.read = {cpath},
                               !.chunkHit = c.hit, !.loaded = c.loaded,
                               !.wrote = IF c.hit \/ ~c.ok THEN {} ELSE {cpath}]
    IN
    IF ~c.ok
    THEN /\ inst' = [keyed EXCEPT !.outcome = c.err]
         /\ disk' = c.disk
    ELSE
    LET v == LoadOrBuildVectorStore(c.disk, FaissDir(h.key), c.chunks, embedOk)
        built == [keyed EXCEPT !.chunks = c.chunks,
                               !.read = @ \cup {FaissDir(h.key)},
                               !.indexHit = v.hit,
                               !.wrote = IF v.hit \/ ~v.ok THEN @
                                         ELSE @ \cup {FaissDir(h.key)}]
    IN
    /\ disk' = v.disk
    /\ inst' = IF v.ok THEN [built EXCEPT !.outcome = "ok", !.index = v.index]
                       ELSE [built EXCEPT !.outcome = v.err]

\* RAGAgent(knowledge_base): existence check, then key / chunks / index with the
\* module's CHUNK_SIZE, CHUNK_OVERLAP
RAGAgentInit(p, embedOk) ==
    /\ builds < MaxBuilds
    /\ builds' = builds + 1
    /\ IF kb = NoFile
       THEN /\ inst' = [NoInst EXCEPT !.who = "agent", !.src = kb, !.params = p,
                                     !.outcome = "FileNotFoundError"]
            /\ disk' = disk
       ELSE Construct("agent", p, p, "agent", embedOk, kb)
    /\ UNCHANGED <<chatVars, toolVars, appVars, kb>>

\* RAGPipeline(knowledge_base): no existence check; the key uses the module's
\* CHUNK_SIZE, CHUNK_OVERLAP, the splitter the literals of rag.py:47
RAGPipelineInit(p, embedOk) ==
    /\ builds < MaxBuilds
    /\ builds' = builds + 1
    /\ Construct("pipeline", p, <<RagSplitSize, RagSplitOverlap>>, "pipeline",
                 embedOk, kb)
    /\ UNCHANGED <<chatVars, toolVars, appVars, kb>>

\* the knowledge-base file is replaced, created or removed between constructions
EditSource(file) ==
    /\ file # kb
    /\ kb' = file
    /\ UNCHANGED <<chatVars, toolVars, appVars, disk, inst, builds>>

CacheInit ==
    /\ ChatIdle
    /\ ToolIdle
    /\ AppIdle
    /\ kb \in Sources \cup {NoFile}
    /\ disk = <<>> /\ inst = NoInst /\ builds = 0

CacheNext ==
    \/ \E p \in ParamChoices, embedOk \in BOOLEAN : RAGAgentInit(p, embedOk)
    \/ \E p \in ParamChoices, embedOk \in BOOLEAN : RAGPipelineInit(p, embedOk)
    \/ \E file \in Sources \cup {NoFile} : EditSource(file)

CacheSpec == CacheInit /\ [][CacheNext]_vars

\* ---- constructions in a hostile environment -------------------------------
\* RAGAgent(knowledge_base) killed (or failing on the write) while the chunk
\* file is being written (at = "chunks"), or after save_local has created the
\* index directory and before its files are complete (at = "index")
RAGAgentInitInterrupted(p, at) ==
    /\ builds < MaxBuilds
    /\ builds' = builds + 1
    /\ kb # NoFile
    /\ LET key == FileHash(kb, p).key
           cpath == AgentChunksPkl(key)
           start == [NoInst EXCEPT !.who = "agent", !.src = kb, !.params = p,
                                   !.key = key, !.outcome = "killed"]
       IN
       IF at = "chunks"
       THEN /\ cpath \notin DOMAIN disk
            /\ disk' = Write(disk, cpath, TruncatedPkl)
            /\ inst' = [start EXCEPT !.read = {cpath}, !.wrote = {cpath},
                                     !.loaded = TRUE]
       ELSE LET c == LoadOrBuildChunks(disk, cpath, kb, p) IN
            /\ c.ok /\ c.chunks # <<>>
            /\ FaissDir(key) \notin DOMAIN c.disk
            /\ disk' = Write(c.disk, FaissDir(key), PartialIndex)
            /\ inst' = [start EXCEPT !.read = {cpath, FaissDir(key)},
                                     !.chunks = c.chunks, !.chunkHit = c.hit,
                                     !.loaded = c.loaded,
                                     !.wrote = (IF c.hit THEN {} ELSE {cpath})
                                                 \cup {FaissDir(key)}]
    /\ UNCHANGED <<chatVars, toolVars, appVars, kb>>

\* RAGAgent(knowledge_base) while the file is being replaced: the key is
\* computed (agent.py:53) from the old file, the loader (agent.py:103) reads
\* the new one
RAGAgentInitDuringEdit(p, embedOk, file) ==
    /\ builds < MaxBuilds
    /\ builds' = builds + 1
    /\ kb # NoFile /\ file # kb
    /\ kb' = file
    /\ Construct("agent", p, p, "agent", embedOk, file)
    /\ UNCHANGED <<chatVars, toolVars, appVars>>

FaultNext ==
    \/ \E p \in ParamChoices, embedOk \in BOOLEAN : RAGAgentInit(p, embedOk)
    \/ \E p \in ParamChoices, embedOk \in BOOLEAN : RAGPipelineInit(p, embedOk)
    \/ \E file \in Sources \cup {NoFile} : EditSource(file)
    \/ \E p \in ParamChoices, at \in {"chunks", "index"} : RAGAgentInitInterrupted(p, at)
    \/ \E p \in ParamChoices, embedOk \in BOOLEAN, file \in Sources \cup {NoFile} :
          RAGAgentInitDuringEdit(p, embedOk, file)

FaultSpec == CacheInit /\ [][FaultNext]_vars

\* ---- app.py: _ensure_runtime ------------------------------------------------
\* Every handler (chat, _init_thread, _reset_thread, _export_thread) starts
\* with _ensure_runtime(); handlers of different requests run on the server's
\* worker threads.
\* `if _runtime is None:`
EnsureCheck(r) ==
    /\ boot.reqs[r].pc = "idle"
    /\ boot' = [boot EXCEPT !.reqs[r].pc =
                    IF boot.runtime = 0 THEN "construct" ELSE "return"]
    /\ UNCHANGED <<chatVars, cacheVars, toolVars, sess>>

\* `agent = RAGAgent(knowledge_base=KB_PATH); _runtime = ChatRuntime(agent)`:
\* a new agent, a new sqlite connection and a newly compiled graph; an
\* exception of the construction leaves _runtime as it was and ends the handler
EnsureConstruct(r, ok) ==
    /\ boot.reqs[r].pc = "construct"
    /\ IF ok
       THEN boot' = [boot EXCEPT !.made = @ + 1, !.runtime = boot.made + 1,
                                 !.reqs[r].pc = "return"]
       ELSE boot' = [boot EXCEPT !.reqs[r].pc = "raised"]
    /\ UNCHANGED <<chatVars, cacheVars, toolVars, sess>>

\* `return _runtime`
EnsureReturn(r) ==
    /\ boot.reqs[r].pc = "return"
    /\ boot' = [boot EXCEPT !.reqs[r] = [pc |-> "done", ret |-> boot.runtime]]
    /\ UNCHANGED <<chatVars, cacheVars, toolVars, sess>>

BootInit == ChatIdle /\ CacheIdle /\ ToolIdle /\ AppIdle

BootNext ==
    \/ \E r \in Requests : EnsureCheck(r)
    \/ \E r \in Requests, ok \in BOOLEAN : EnsureConstruct(r, ok)
    \/ \E r \in Requests : EnsureReturn(r)

BootSpec == BootInit /\ [][BootNext]_vars

\* the messages persisted under tid in the store st
HistoryIn(st, tid) == IF tid \in DOMAIN st THEN st[tid] ELSE <<>>

\* ---- sessions: the CLI loop (main.py) and the UI (app.py) ------------------
\* Every CLI process starts on the same hard-coded thread_id and the same
\* chat_state.db; a UI session starts on the id _init_thread made for it.
Sessions == {"cli1", "cli2", "ui1"}
Kind(s) == IF s = "ui1" THEN "ui" ELSE "cli"

\* main.py:13 thread_id = "aayush-local-2"
CliThreadId == <<"t1">>

\* _new_thread_id: f"{prefix}-{uuid.uuid4().hex[:8]}", the n-th id handed out
\* (uuid values are taken to be distinct)
NewThreadId(n) == <<"ui", n>>

\* a session: the thread_id it holds, the chat call it issued last (0: none),
\* what its last reset found, whether its process has ended
StartSession(s, tid) ==
    [tid |-> tid, call |-> 0, resets |-> 0, emptyAtReset |-> TRUE, ended |-> FALSE]

\* the CLI loop is one thread: it reads the next command when chat has returned
InChat(s) == sess.of[s].call # 0 /\ Running(sess.of[s].call)

SessionInit ==
    /\ hasDelete \in BOOLEAN
    /\ handleToolErrors \in BOOLEAN
    /\ store = <<>>
    /\ calls = [c \in CallIds |-> IdleCall]
    /\ lastOp = NoOp
    /\ CacheIdle /\ ToolIdle /\ boot = NoBoot
    /\ sess = [now |-> 0, minted |-> 1,
               of |-> [s \in Sessions |->
                         StartSession(s, IF Kind(s) = "ui" THEN NewThreadId(1)
                                                          ELSE CliThreadId)]]

\* a second passes
Tick ==
    /\ sess.now + 1 \in Clock
    /\ sess' = [sess EXCEPT !.now = @ + 1]
    /\ UNCHANGED <<chatVars, cacheVars, toolVars, boot>>

\* main.py:27 (app.py:54): reply = chat.chat(user, thread_id)
SessionChat(s, c) ==
    /\ ~sess.of[s].ended
    /\ Kind(s) = "cli" => ~InChat(s)
    /\ ChatInvoke(c, sess.of[s].tid)
    /\ sess' = [sess EXCEPT !.of[s].call = c]
    /\ UNCHANGED <<cacheVars, toolVars, boot>>

\* main.py:19-22: thread_id = chat.reset_thread(thread_id); an exception of
\* reset_thread is not caught and ends the process
CliReset(s) ==
    /\ Kind(s) = "cli"
    /\ ~sess.of[s].ended /\ ~InChat(s)
    /\ sess.of[s].resets < MaxResets
    /\ ResetThreadAt(sess.of[s].tid, sess.now)
    /\ sess' = IF lastOp'.raised
               THEN [sess EXCEPT !.of[s].ended = TRUE]
               ELSE [sess EXCEPT !.of[s].tid = lastOp'.ret,
                                 !.of[s].resets = @ + 1,
                                 !.of[s].emptyAtReset =
                                     (HistoryIn(store', lastOp'.ret) = <<>>)]
    /\ UNCHANGED <<cacheVars, toolVars, boot, hasDelete, handleToolErrors, calls>>

\* app.py:106-117 _reset_thread: runtime.reset_thread(tid) with its result and
\* its exception ignored, then a new id from _new_thread_id
UiReset(s) ==
    /\ Kind(s) = "ui"
    /\ sess.of[s].resets < MaxResets
    /\ ResetThreadAt(sess.of[s].tid, sess.now)
    /\ LET new == NewThreadId(sess.minted + 1) IN
       sess' = [sess EXCEPT !.minted = @ + 1,
                            !.of[s].tid = new,
                            !.of[s].resets = @ + 1,
                            !.of[s].emptyAtReset = (HistoryIn(store', new) = <<>>)]
    /\ UNCHANGED <<cacheVars, toolVars, boot, hasDelete, handleToolErrors, calls>>

SessionNext ==
    \/ \E s \in Sessions, c \in CallIds : SessionChat(s, c)
    \/ \E c \in CallIds : QueryOrRespond(c)
    \/ \E c \in CallIds : Tools(c)
    \/ \E c \in CallIds : Generate(c)
    \/ \E s \in Sessions : CliReset(s)
    \/ \E s \in Sessions : UiReset(s)
    \/ Tick

SessionSpec == SessionInit /\ [][SessionNext]_vars

\* ---- the retrieve tool (agent.py:140-160) -----------------------------------
RETRIEVE_K == 5

\* how the index ranks its chunks for a query: most similar first, no chunk
\* twice; empty for an empty index or when nothing matches
RECURSIVE RankingsUpTo(_)
RankingsUpTo(n) ==
    IF n = 0 THEN {<<>>}
    ELSE LET shorter == RankingsUpTo(n - 1) IN
         shorter \cup UNION {{Append(r, d) :
                                 d \in (1..MaxDocs) \ {r[i] : i \in 1..Len(r)}} :
                              r \in {q \in shorter : Len(q) = n - 1}}

Rankings == RankingsUpTo(MaxDocs)

\* vector_store.similarity_search(query, k): the k best of the ranking
SimilaritySearchAll(ranking, k) == ranking
SimilaritySearch(ranking, k) ==
    SubSeq(ranking, 1, IF Len(ranking) < k THEN Len(ranking) ELSE k)

\* f"Source: {doc.metadata}\nContent: {doc.page_content}": two lines
Block(doc) == <<[kind |-> "Source", doc |-> doc], [kind |-> "Content", doc |-> doc]>>
BlankLine == [kind |-> "", doc |-> 0]

\* "\n\n".join(blocks), as the lines of the text; no block gives the empty text
RECURSIVE Serialize(_, _)
Serialize(docs, n) ==
    IF n = 0 THEN <<>>
    ELSE IF n = 1 THEN Block(docs[1])
    ELSE Serialize(docs, n - 1) \o <<BlankLine>> \o Block(docs[n])

RetrieveInit ==
    /\ ChatIdle
    /\ CacheIdle
    /\ fin = NoProbe /\ gen = NoProbe
    /\ AppIdle
    /\ rq \in {[applied |-> FALSE, ranking |-> r, searchOk |-> b, raised |-> FALSE,
                 docs |-> <<>>, text |-> <<>>] : r \in Rankings, b \in BOOLEAN}

\* RAGAgent.retrieve(query); an error of the search is logged and re-raised
Retrieve ==
    /\ ~rq.applied
    /\ rq' = IF rq.searchOk
             THEN LET retrieved_docs == SimilaritySearch(rq.ranking, RETRIEVE_K) IN
                  [rq EXCEPT !.applied = TRUE, !.docs = retrieved_docs,
                             !.text = Serialize(retrieved_docs, Len(retrieved_docs))]
             ELSE [rq EXCEPT !.applied = TRUE, !.raised = TRUE]
    /\ UNCHANGED <<chatVars, cacheVars, appVars, fin, gen>>

RetrieveNext == Retrieve

RetrieveSpec == RetrieveInit /\ [][RetrieveNext]_vars

\* ---- the answer selection of chat on arbitrary result lists ------------------
\* result["messages"]: any non-empty list of human / ai / tool messages
MsgKinds == {HumanMessage(1), ToolMessage(1, TRUE)}
                \cup {AIMessage(1, k) : k \in 0..MaxToolCalls}

RECURSIVE SeqsUpTo(_, _)
SeqsUpTo(S, n) ==
    IF n = 0 THEN {<<>>}
    ELSE LET shorter == SeqsUpTo(S, n - 1) IN
         shorter \cup {Append(q, x) : q \in shorter, x \in S}

ResultLists == SeqsUpTo(MsgKinds, MaxLen) \ {<<>>}

FinalInit ==
    /\ ChatIdle
    /\ CacheIdle
    /\ rq = NoProbe /\ gen = NoProbe
    /\ AppIdle
    /\ fin \in {[applied |-> FALSE, msgs |-> m, ret |-> NoMsg] : m \in ResultLists}

\* chat_runtime.py:28-32 on the result of graph.invoke
ChatReturn ==
    /\ ~fin.applied
    /\ fin' = [fin EXCEPT !.applied = TRUE,
                          !.ret = FinalAi(fin.msgs, Len(fin.msgs))]
    /\ UNCHANGED <<chatVars, cacheVars, appVars, rq, gen>>

FinalNext == ChatReturn

FinalSpec == FinalInit /\ [][FinalNext]_vars

\* ---- the prompt of generate on arbitrary histories ---------------------------
\* state["messages"]: any non-empty list of human / system / ai / tool messages
HistoryMsgs ==
    {Msg(t, c, 0, FALSE) : t \in {"human", "system", "tool"}, c \in CallIds}
        \cup {AIMessage(c, k) : c \in CallIds, k \in 0..MaxToolCalls}

Histories == SeqsUpTo(HistoryMsgs, MaxLen) \ {<<>>}

PromptInit ==
    /\ ChatIdle
    /\ CacheIdle
    /\ AppIdle
    /\ fin = NoProbe /\ rq = NoProbe
    /\ gen \in {[applied |-> FALSE, msgs |-> h, prompt |-> Prompt(<<>>)] : h \in Histories}

\* agent.py:183-204 on state["messages"]
BuildPrompt ==
    /\ ~gen.applied
    /\ gen' = [gen EXCEPT !.applied = TRUE, !.prompt = Prompt(gen.msgs)]
    /\ UNCHANGED <<chatVars, cacheVars, appVars, fin, rq>>

PromptNext == BuildPrompt

PromptSpec == PromptInit /\ [][PromptNext]_vars

\* the chat calls alone.  Every started call keeps running: graph.invoke executes
\* its nodes one after the other on the caller's thread of control
TurnNext ==
    \/ \E c \in CallIds, tid \in KnownIds : ChatBegin(c, tid)
    \/ \E c \in CallIds : QueryOrRespond(c)
    \/ \E c \in CallIds : Tools(c)
    \/ \E c \in CallIds : Generate(c)

LiveSpec ==
    /\ Init /\ [][TurnNext]_vars
    /\ \A c \in CallIds :
          WF_vars(QueryOrRespond(c)) /\ WF_vars(Tools(c)) /\ WF_vars(Generate(c))

\* the same operations, each thread used by one caller at a time
SeqNext ==
    \/ \E c \in CallIds, tid \in KnownIds : ~Busy(tid) /\ ChatBegin(c, tid)
    \/ \E c \in CallIds : QueryOrRespond(c)
    \/ \E c \in CallIds : Tools(c)
    \/ \E c \in CallIds : Generate(c)
    \/ \E tid \in BaseIds : ~Busy(tid) /\ ResetThread(tid)
    \/ \E tid \in KnownIds : ~Busy(tid) /\ GetHistory(tid)
    \/ \E tid \in KnownIds : ~Busy(tid) /\ ExportHistory(tid)

SeqSpec == Init /\ [][SeqNext]_vars

\* ---- properties ---------------------------------------------------------
AllIds == BaseIds \cup {NewId(b, t) : b \in BaseIds, t \in Clock}

IsPrefix(s, t) == Len(s) <= Len(t) /\ SubSeq(t, 1, Len(s)) = s

IsContiguousIn(sub, s) ==
    \E i \in 0..(Len(s) - Len(sub)) : SubSeq(s, i + 1, i + Len(sub)) = sub

InSeq(m, s) == \E i \in 1..Len(s) : s[i] = m

\* the messages call c appended
TurnMsgs(c) == SelectSeq(calls[c].msgs, LAMBDA m : m.call = c)

\* C1: when the LLM invocation of DECIDE or GENERATE fails during chat(text, tid),
\* the call ends with that error and none of the turn's messages (human,
\* tool-requesting AI, tool results) is in the persisted history of tid.
C1_FailedTurnNotCommitted ==
    \A c \in CallIds :
        calls[c].err = "llm" =>
            /\ calls[c].pc = "failed"
            /\ \A i \in 1..Len(History(calls[c].tid)) :
                  History(calls[c].tid)[i].call # c

\* C2: two chat calls on the same thread, also when issued concurrently, leave
\* a history in which every message of both turns is present and each turn's
\* messages are contiguous (stated for a backend that never deletes).
C2_NoInterleavedWrites ==
    ~hasDelete =>
        \A c, d \in CallIds :
            (c # d /\ calls[c].pc = "done" /\ calls[d].pc = "done"
                   /\ calls[c].tid = calls[d].tid) =>
                IsContiguousIn(TurnMsgs(c), History(calls[c].tid))

\* C3: after DECIDE the graph moves to RETRIEVE iff the AI message just produced
\* carries at least one tool call; otherwise it is DONE and neither RETRIEVE
\* nor GENERATE has run.
C3_Routing ==
    [][\A c \in CallIds :
        (calls[c].pc = "decide" /\ calls'[c].pc \notin {"decide", "failed"}) =>
            LET ai == Last(calls'[c].msgs) IN
            /\ ai.type = "ai" /\ ai.call = c
            /\ (calls'[c].pc = "tools") <=> (ai.calls >= 1)
            /\ (ai.calls = 0) =>
                  /\ calls'[c].pc = "done"
                  /\ calls'[c].visited = <<"query_or_respond">>]_vars

C3_Witness ==
    \E c, d \in CallIds :
        /\ calls[c].pc = "tools"
        /\ calls[d].pc = "done" /\ calls[d].visited = <<"query_or_respond">>

\* C4: a turn that reaches DONE, on either branch, has appended exactly one AI
\* message without tool calls, and that message is the last of the resulting
\* history.
C4_OneFinalAnswer ==
    \A c \in CallIds :
        calls[c].pc = "done" =>
            LET finals == SelectSeq(TurnMsgs(c),
                              LAMBDA m : m.type = "ai" /\ m.calls = 0) IN
            /\ calls[c].visited \in {<<"query_or_respond">>,
                                     <<"query_or_respond", "tools", "generate">>}
            /\ Len(finals) = 1
            /\ Last(calls[c].msgs) = finals[1]

C4_Witness ==
    \E c, d \in CallIds :
        /\ calls[c].pc = "done" /\ Len(calls[c].visited) = 3
        /\ calls[d].pc = "done" /\ Len(calls[d].visited) = 1

\* C5: operations on different thread ids never interact: the persisted history
\* of a thread changes only in a step of a chat or reset on that very thread,
\* and the history a chat works on holds only messages of chats on its thread.
C5_ThreadIsolation ==
    /\ [][\A t \in AllIds :
            History(t)' # History(t) =>
                \/ \E c \in CallIds : calls'[c] # calls[c] /\ calls'[c].tid = t
                \/ calls' = calls /\ lastOp'.op = "reset" /\ lastOp'.tid = t]_vars
    /\ [](\A c \in CallIds : \A i \in 1..Len(calls[c].msgs) :
            calls[calls[c].msgs[i].call].tid = calls[c].tid)

C5_Witness ==
    \E c, d \in CallIds :
        /\ calls[c].tid # calls[d].tid
        /\ calls[c].pc = "done" /\ calls[d].pc \in {"done", "failed"}
        /\ Len(calls[d].msgs) >= 1
        /\ History(calls[c].tid) = calls[c].msgs
        /\ lastOp.op \in {"reset", "export"} /\ lastOp.tid = calls[d].tid

\* the calls on thread t that returned an answer and whose turn is in its history
DoneTurns(t) ==
    {c \in CallIds : /\ calls[c].pc = "done" /\ calls[c].tid = t
                     /\ InSeq(HumanMessage(c), History(t))}

\* messages in call order, each call's human message before its other messages
OrderedTurns(h) ==
    /\ \A i, j \in 1..Len(h) : i < j => h[i].call <= h[j].call
    /\ \A j \in 1..Len(h) :
          h[j].type # "human" =>
              \E i \in 1..(j - 1) : h[i] = HumanMessage(h[j].call)

\* Lemma (sequential use of a thread): the persisted history grows by appending,
\* holds at least two messages per answered turn, in call order.
PersistedOrder ==
    /\ [][\A t \in AllIds :
            (History(t)' # History(t) /\ calls' # calls) =>
                IsPrefix(History(t), History(t)')]_vars
    /\ [](\A t \in AllIds :
            /\ Len(History(t)) >= 2 * Cardinality(DoneTurns(t))
            /\ OrderedTurns(History(t)))

\* C6: for a single thread used sequentially, after N successful chat calls
\* get_history returns at least 2N messages in call order, and the history
\* before each chat step is a prefix of the history after it.
C6_SequentialOrder ==
    [][/\ \A t \in AllIds :
            (History(t)' # History(t) /\ calls' # calls) =>
                IsPrefix(History(t), History(t)')
       /\ (lastOp' # lastOp /\ lastOp'.op = "get_history"
                            /\ DoneTurns(lastOp'.tid) # {}) =>
            /\ ~lastOp'.raised
            /\ Len(lastOp'.msgs) >= 2 * Cardinality(DoneTurns(lastOp'.tid))
            /\ OrderedTurns(lastOp'.msgs)]_vars

\* C7: when chat returns an answer, the whole turn (its human message and that
\* answer) is in the persisted history of the thread; a call that hit an
\* unavailable store at one of its writes fails and returns no answer.
C7_AnswerIsDurable ==
    /\ [][\A c \in CallIds :
            (calls[c].pc # "done" /\ calls'[c].pc = "done") =>
                /\ HistoryIn(store', calls'[c].tid) = calls'[c].msgs
                /\ InSeq(HumanMessage(c), calls'[c].msgs)
                /\ calls'[c].ret = Last(calls'[c].msgs)
                /\ calls'[c].ret.type = "ai" /\ calls'[c].ret.call = c]_vars
    /\ [](\A c \in CallIds :
            calls[c].err # "none" => calls[c].pc = "failed" /\ calls[c].ret = NoMsg)

C7_Witness ==
    \E c, d \in CallIds :
        /\ calls[c].pc = "done" /\ History(calls[c].tid) = calls[c].msgs
        /\ calls[d].err = "db" /\ Len(calls[d].visited) >= 1

\* C8: an error of the LLM (DECIDE, GENERATE) or of the retrieve tool (RETRIEVE)
\* ends the call with that error: no node runs twice, none runs after the
\* failure, and a tool failure never becomes a tool-result message.
C8_ErrorsPropagate ==
    \A c \in CallIds :
        /\ calls[c].err \in {"llm", "tool"} => calls[c].pc = "failed"
        /\ \A i, j \in 1..Len(calls[c].visited) :
              i # j => calls[c].visited[i] # calls[c].visited[j]
        /\ \A i \in 1..Len(calls[c].msgs) :
              ~(calls[c].msgs[i].type = "tool" /\ calls[c].msgs[i].err)

\* C9: with a backend that supports delete, reset_thread(tid) returns tid and
\* empties its history; get_history(tid) right afterwards returns the empty
\* list, and the next chat on tid starts from its own human message.
C9_ResetThenFresh ==
    [][/\ (hasDelete /\ calls' = calls /\ lastOp'.op = "reset" /\ ~lastOp'.raised) =>
            /\ lastOp'.ret = lastOp'.tid
            /\ HistoryIn(store', lastOp'.tid) = <<>>
       /\ (hasDelete /\ lastOp.op = "reset" /\ ~lastOp.raised
                     /\ History(lastOp.tid) = <<>>) =>
            /\ (lastOp'.op = "get_history" /\ lastOp'.tid = lastOp.tid) =>
                    (~lastOp'.raised /\ lastOp'.msgs = <<>>)
            /\ \A c \in CallIds :
                  (calls[c].pc = "idle" /\ calls'[c].pc = "decide"
                                       /\ calls'[c].tid = lastOp.tid) =>
                      calls'[c].msgs = <<HumanMessage(c)>>]_vars

\* C10: with a backend without delete, reset_thread(tid) returns an identifier
\* that differs from tid and names a thread with no persisted history, and
\* leaves the history under tid unchanged.
C10_FallbackIdIsFresh ==
    [][(~hasDelete /\ calls' = calls /\ lastOp'.op = "reset") =>
            /\ ~lastOp'.raised
            /\ lastOp'.ret # lastOp'.tid
            /\ HistoryIn(store, lastOp'.ret) = <<>>
            /\ HistoryIn(store', lastOp'.tid) = HistoryIn(store, lastOp'.tid)]_vars

\* C11: get_history(tid) returns the persisted messages of tid in order, and the
\* empty sequence (no error) for a thread id that was never written.
C11_GetHistory ==
    [][(lastOp' # lastOp /\ lastOp'.op = "get_history") =>
            /\ ~lastOp'.raised
            /\ lastOp'.msgs = History(lastOp'.tid)]_vars

\* C12: export_history(tid) leaves every checkpoint as it was and creates none:
\* the store after the call is the store before it, also for a thread id that
\* was never written.
C12_ExportReadOnly ==
    [][(lastOp' # lastOp /\ lastOp'.op = "export") =>
            /\ store' = store
            /\ DOMAIN store' = DOMAIN store
            /\ \A t \in AllIds : HistoryIn(store', t) = History(t)]_vars

C12_Witness ==
    /\ lastOp.op = "export"
    /\ lastOp.tid \notin DOMAIN store
    /\ \E t \in DOMAIN store : Len(store[t]) >= 2

IsFinalAnswer(m) == m.type = "ai" /\ m.calls = 0

\* r is the answer of chat for the result list msgs: the last final AI message, else the last message
IsAnswerOf(r, msgs) ==
    IF \E i \in 1..Len(msgs) : IsFinalAnswer(msgs[i])
    THEN \E i \in 1..Len(msgs) :
            /\ IsFinalAnswer(msgs[i])
            /\ \A j \in (i + 1)..Len(msgs) : ~IsFinalAnswer(msgs[j])
            /\ r = msgs[i]
    ELSE r = Last(msgs)

\* C13: chat returns the last message of the resulting history that is an AI
\* message without tool calls; when the history has no such message it returns
\* the final message of the history.
C13_ReturnedAnswer ==
    /\ fin.applied => IsAnswerOf(fin.ret, fin.msgs)
    /\ \A c \in CallIds :
          calls[c].pc = "done" => IsAnswerOf(calls[c].ret, calls[c].msgs)

C13_Witness ==
    /\ fin.applied
    /\ Len(fin.msgs) = 3
    /\ IsFinalAnswer(fin.msgs[1])
    /\ ~IsFinalAnswer(fin.msgs[2]) /\ ~IsFinalAnswer(fin.msgs[3])
    /\ fin.ret = fin.msgs[1]

\* number of LLM invocations of a call
LlmInvocations(c) ==
    Len(SelectSeq(calls[c].visited,
                  LAMBDA n : n \in {"query_or_respond", "generate"}))

\* C14: a started chat call always comes to an end: it reaches DONE and returns
\* unless one of its invocations (LLM, tool, checkpoint write) raised.  One turn
\* runs DECIDE once, then RETRIEVE at most once, then GENERATE at most once: at
\* most two LLM invocations, whatever the LLM outputs.
C14_TurnTerminates ==
    /\ \A c \in CallIds :
          (calls[c].pc = "decide") ~> (calls[c].pc = "done" \/ calls[c].err # "none")
    /\ [](\A c \in CallIds :
            /\ IsPrefix(calls[c].visited, <<"query_or_respond", "tools", "generate">>)
            /\ LlmInvocations(c) <= 2
            /\ calls[c].pc = "done" =>
                  /\ calls[c].err = "none" /\ calls[c].ret # NoMsg
                  /\ calls[c].visited # <<>>
            /\ calls[c].pc = "failed" => calls[c].err # "none")

C14_Witness ==
    \E c, d \in CallIds :
        /\ calls[c].pc = "done" /\ LlmInvocations(c) = 2
        /\ Last(calls[c].msgs).type = "ai"
        /\ calls[d].pc = "done" /\ LlmInvocations(d) = 1

\* a step of one construction
Constructed == builds' = builds + 1

ChunksPklOf(i) ==
    IF i.who = "agent" THEN AgentChunksPkl(i.key) ELSE PipelineChunksPkl(i.key)

\* C15: for fixed file content and fixed (chunk_size, overlap), a second
\* build-or-load of the same chunk cache yields the chunk sequence of the first,
\* and is a cache hit: the stored chunks are returned and the source document is
\* neither loaded nor split again.
C15_CacheDeterminism ==
    [][Constructed =>
        /\ (/\ inst.who = inst'.who /\ inst.src = inst'.src
            /\ inst.params = inst'.params /\ inst.key # NoKey) =>
                /\ inst'.key = inst.key
                /\ inst'.chunks = inst.chunks
                /\ inst'.chunkHit /\ ~inst'.loaded
                /\ ChunksPklOf(inst') \notin inst'.wrote
        /\ (inst'.key # NoKey /\ ChunksPklOf(inst') \in DOMAIN disk) =>
                /\ inst'.chunkHit /\ ~inst'.loaded
                /\ inst'.chunks = disk[ChunksPklOf(inst')]]_vars

C15_Witness ==
    /\ builds = 2
    /\ inst.chunkHit /\ ~inst.loaded
    /\ inst.outcome = "ok"
    /\ Len(inst.chunks) = 2
    /\ disk[ChunksPklOf(inst)] = inst.chunks

\* C16: a construction whose source differs in one byte, or whose chunk_size or
\* overlap differs, from the previous one gets a different cache key; a key with
\* no chunk file gets a freshly built and stored chunk set; and no construction
\* rewrites a chunk file or index directory that already exists.
C16_Invalidation ==
    [][Constructed =>
        /\ (/\ inst.key # NoKey /\ inst'.key # NoKey
            /\ (inst.src # inst'.src \/ inst.params # inst'.params)) =>
                inst'.key # inst.key
        /\ (inst'.key # NoKey /\ ChunksPklOf(inst') \notin DOMAIN disk) =>
                /\ inst'.loaded /\ ~inst'.chunkHit
                /\ ChunksPklOf(inst') \in DOMAIN disk'
                /\ disk'[ChunksPklOf(inst')] = inst'.chunks
        /\ inst'.wrote \cap DOMAIN disk = {}
        /\ \A q \in DOMAIN disk : q \in DOMAIN disk' /\ disk'[q] = disk[q]]_vars

C16_Witness ==
    /\ builds = 2
    /\ inst.outcome = "ok" /\ inst.loaded
    /\ \E q \in DOMAIN disk :
          /\ q # ChunksPklOf(inst) /\ q[1] = ChunksPklOf(inst)[1]
          /\ q[2][1] # inst.src.records
          /\ disk[q] # inst.chunks

\* the chunk-cache entries stored for a key (one per class that built it)
ChunkEntries(key) ==
    {disk[q] : q \in {AgentChunksPkl(key), PipelineChunksPkl(key)} \cap DOMAIN disk}

C18_MissingSourceFailsFirst ==
    [][(Constructed /\ kb = NoFile) =>
            /\ inst'.outcome = "FileNotFoundError"
            /\ inst'.key = NoKey
            /\ inst'.read = {} /\ inst'.wrote = {}
            /\ ~inst'.loaded /\ ~inst'.chunkHit /\ ~inst'.indexHit
            /\ disk' = disk]_vars

C18_Witness ==
    /\ builds = 2
    /\ inst.who = "pipeline" /\ inst.src = NoFile
    /\ inst.outcome = "FileNotFoundError"
    /\ \E q \in DOMAIN disk : q[1] = "faiss_"

\* C19: retrieve returns the empty text, and no error, when the search yields
\* no chunk; otherwise one two-line block (source line, content line) per
\* result, at most 5 results, in the order of the search, blocks separated by
\* one blank line.
C19_RetrieveFormat ==
    (rq.applied /\ rq.searchOk) =>
        LET n == Len(rq.docs) IN
        /\ ~rq.raised
        /\ n <= 5 /\ n <= Len(rq.ranking)
        /\ n = 0 <=> rq.ranking = <<>>
        /\ \A i \in 1..n : rq.docs[i] = rq.ranking[i]
        /\ n = 0 => rq.text = <<>>
        /\ n > 0 => Len(rq.text) = 3 * n - 1
        /\ \A i \in 1..n :
              /\ rq.text[3 * i - 2] = [kind |-> "Source", doc |-> rq.docs[i]]
              /\ rq.text[3 * i - 1] = [kind |-> "Content", doc |-> rq.docs[i]]
              /\ i < n => rq.text[3 * i] = BlankLine

C19_Witness ==
    /\ rq.applied /\ ~rq.raised
    /\ Len(rq.ranking) = 6 /\ Len(rq.docs) = 5
    /\ rq.docs[1] > rq.docs[2]
    /\ Len(rq.text) = 14

\* C20: a source with zero records is not fatal: the construction stores the
\* empty chunk set, builds the index and completes (it may only fail for an
\* unreachable embedding service), leaving a usable object that retrieves
\* nothing.
C20_EmptySourceUsable ==
    [][(Constructed /\ kb.exists /\ kb.records = <<>>) =>
            /\ inst'.outcome \in {"ok", "EmbeddingError"}
            /\ disk'[ChunksPklOf(inst')] = <<>>
            /\ inst'.outcome = "ok" =>
                  /\ inst'.chunks = <<>>
                  /\ FaissDir(inst'.key) \in DOMAIN disk'
                  /\ inst'.index.docs = <<>>]_vars

C22_GroundingContext ==
    gen.applied =>
        LET msgs == gen.msgs
            ctx == gen.prompt.context
            n == Len(ctx)
        IN /\ n <= Len(msgs)
           /\ \A i \in 1..n :
                 /\ msgs[Len(msgs) - n + i].type = "tool"
                 /\ ctx[i] = Content(msgs[Len(msgs) - n + i])
           /\ n < Len(msgs) => msgs[Len(msgs) - n].type # "tool"
           /\ Last(msgs).type # "tool" => ctx = <<>>

C22_Witness ==
    /\ gen.applied
    /\ Len(gen.msgs) = 3
    /\ gen.msgs[1].type = "tool" /\ gen.msgs[2].type = "ai" /\ gen.msgs[3].type = "tool"
    /\ gen.prompt.context = <<Content(gen.msgs[3])>>

\* a message GENERATE keeps in the conversation
Kept(m) == m.type \in {"human", "system"} \/ (m.type = "ai" /\ m.calls = 0)

\* C23: the conversation GENERATE passes to the LLM after its system instruction
\* is exactly the human messages, system messages and AI messages without tool
\* calls of the history, in their original order; tool messages and AI messages
\* with tool calls are left out.
C23_ConversationFilter ==
    gen.applied =>
        LET msgs == gen.msgs
            conv == gen.prompt.conversation
            kept == {i \in 1..Len(msgs) : Kept(msgs[i])}
        IN /\ Len(conv) = Cardinality(kept)
           /\ \A i \in kept : conv[Cardinality({j \in kept : j <= i})] = msgs[i]
           /\ \A i \in 1..Len(conv) :
                 /\ conv[i].type # "tool"
                 /\ ~(conv[i].type = "ai" /\ conv[i].calls > 0)

C23_Witness ==
    /\ gen.applied
    /\ Len(gen.msgs) = 3
    /\ gen.msgs[1].type = "ai" /\ gen.msgs[1].calls > 0
    /\ gen.msgs[2].type = "system" /\ gen.msgs[3].type = "ai"
    /\ gen.prompt.conversation = <<gen.msgs[2], gen.msgs[3]>>

\* C24: what chat returns on success is an AI message appended during that same
\* call, after any earlier turns on the thread (answered or failed, also
\* concurrent ones): never the answer of an earlier turn.
C24_OwnAnswer ==
    \A c \in CallIds :
        calls[c].pc = "done" =>
            /\ calls[c].ret.type = "ai" /\ calls[c].ret.calls = 0
            /\ calls[c].ret.call = c
            /\ InSeq(calls[c].ret, TurnMsgs(c))
            /\ \A d \in CallIds \ {c} : ~InSeq(calls[c].ret, TurnMsgs(d))

C24_Witness ==
    \E c, d \in CallIds :
        /\ c # d /\ calls[c].pc = "done" /\ calls[d].pc = "done"
        /\ calls[c].tid = calls[d].tid
        /\ InSeq(calls[d].ret, calls[c].msgs)
        /\ \E i \in 1..Len(calls[c].msgs) :
              calls[c].msgs[i].type = "ai" /\ calls[c].msgs[i].calls > 0

\* h from position i on is a concatenation of complete turn blocks:
\* [human, AI without tool calls] or [human, AI with k >= 1 tool calls,
\* k tool messages, AI without tool calls]
RECURSIVE TurnBlocksFrom(_, _)
TurnBlocksFrom(h, i) ==
    IF i > Len(h) THEN TRUE
    ELSE /\ i + 1 <= Len(h)
         /\ h[i].type = "human"
         /\ h[i + 1].type = "ai"
         /\ LET k == h[i + 1].calls IN
            IF k = 0 THEN TurnBlocksFrom(h, i + 2)
            ELSE /\ i + k + 2 <= Len(h)
                 /\ \A j \in (i + 2)..(i + k + 1) : h[j].type = "tool"
                 /\ h[i + k + 2].type = "ai" /\ h[i + k + 2].calls = 0
                 /\ TurnBlocksFrom(h, i + k + 3)

\* Lemma (sequential use of a thread): while no call has failed on a thread, its
\* persisted history between turns is a concatenation of complete turn blocks.
TurnBlocksWithoutFailure ==
    \A t \in AllIds :
        (~Busy(t) /\ \A c \in CallIds : ~(calls[c].tid = t /\ calls[c].pc = "failed")) =>
            TurnBlocksFrom(History(t), 1)

\* C25: between turns the persisted history of every thread is a concatenation
\* of complete turn blocks: it holds no system message and does not end in an
\* AI message with unanswered tool calls.
C25_CompleteTurnBlocks ==
    \A t \in AllIds :
        ~Busy(t) =>
            /\ TurnBlocksFrom(History(t), 1)
            /\ \A i \in 1..Len(History(t)) : History(t)[i].type # "system"
            /\ History(t) # <<>> =>
                  ~(Last(History(t)).type = "ai" /\ Last(History(t)).calls > 0)

\* C26: a cache entry a construction treats as a hit is complete: after an
\* interrupted build, the next construction for the same key does not take the
\* cache-hit path on the chunk file cut short or on the incomplete index
\* directory.
C26_HitIsComplete ==
    [][(Constructed /\ inst'.key # NoKey /\ inst'.outcome # "killed") =>
            /\ inst'.chunkHit => disk[ChunksPklOf(inst')] # TruncatedPkl
            /\ inst'.indexHit => disk[FaissDir(inst'.key)] # PartialIndex]_vars

\* the splitter parameters a chunk file of the given class and key is cut with
SplitParamsOf(q) ==
    IF q[1] = "chunks_" THEN <<RagSplitSize, RagSplitOverlap>>
    ELSE <<q[2][3], q[2][5]>>

\* C27: the chunk set stored under key K is the split of the file content whose
\* hash is K, also when the source file is modified between the computation of
\* the key and the loader's read.
C27_ChunksMatchKey ==
    \A q \in DOMAIN disk :
        (q[1] # "faiss_" /\ disk[q] # TruncatedPkl) =>
            disk[q] = SplitDocuments(q[2][1], Len(q[2][1]), SplitParamsOf(q))

\* C28: the hosting process constructs at most one RAGAgent and one
\* ChatRuntime: whatever the number of requests calling _ensure_runtime,
\* concurrent first requests included, every call returns the same runtime
\* object and agent, connection and graph are initialized once.
C28_SingleRuntime ==
    /\ boot.made <= 1
    /\ \A q, r \in Requests :
          (boot.reqs[q].pc = "done" /\ boot.reqs[r].pc = "done") =>
              boot.reqs[q].ret = boot.reqs[r].ret

\* session s issues chat call c
ChatBeginsIn(s, c) ==
    /\ calls[c].pc = "idle" /\ calls'[c].pc # "idle"
    /\ sess.of[s].call # c /\ sess'.of[s].call = c

\* the UI's reset: every later chat of the session runs on a thread whose
\* history was empty at the reset
UiResetThenEmpty ==
    [][\A s \in Sessions, c \in CallIds :
          (Kind(s) = "ui" /\ sess.of[s].resets > 0 /\ ChatBeginsIn(s, c)) =>
              sess.of[s].emptyAtReset]_vars

\* C29: after a session's reset (CLI command or UI button), every later chat
\* of that session runs on a thread whose history was empty at the time of
\* the reset, whether reset_thread deleted, returned a new id, or raised.
C29_ChatAfterResetOnEmptyThread ==
    [][\A s \in Sessions, c \in CallIds :
          (sess.of[s].resets > 0 /\ ChatBeginsIn(s, c)) =>
              sess.of[s].emptyAtReset]_vars

====
